---- MODULE Spec2Model ----
(***************************************************************************)
(* A model of kataras/i18n (i18n.go): the language matcher with its        *)
(* registered-tag list, the path language extractor, the loader that       *)
(* builds the Locale registry, and the lookup operations Tr, GetLocale,    *)
(* GetMessage and SetDefault.                                              *)
(*                                                                         *)
(* Go indexes are kept 0-based: Languages is a TLA+ sequence, and the Go   *)
(* expression Languages[i] is written At(Languages, i).                    *)
(***************************************************************************)
EXTENDS Integers, Sequences, FiniteSets, TLC

VARIABLES
    Languages,   \* Matcher.Languages: the registered-tag list
    matcher,     \* Matcher.matcher: the tag list the language.Matcher was built from
    strict,      \* Matcher.strict
    localizer,   \* I18n.localizer: the registry, a map from index to Locale
    cfg,         \* the exported configuration fields of I18n
    last,        \* the last call made on the instance and what it returned
    mu,          \* I18n.mu: 0 when unlocked, else the reload call holding it
    calls        \* the calls in progress on other goroutines, each at its step

vars == <<Languages, matcher, strict, localizer, cfg, last, mu, calls>>

\* ------------------------------------------------------------------ bounds

\* the longest "languages" argument given to New
MaxLangs == 2
\* the largest number of files the loader's glob yields
MaxFiles == 2
\* the longest path, in chunks, given to parseLanguage
MaxPathLen == 5
MaxReloads == 3
MaxUrlLen == 4

\* ------------------------------------------- golang.org/x/text/language

\* language.Confidence
No == 0
Low == 1
High == 2
Exact == 3

At(s, i) == s[i + 1]

\* a language.Tag: base language, region, and the -u-rg- extension that
\* Matcher.Match adds to its result
MkTag(l, r) == [lang |-> l, region |-> r, rg |-> ""]

\* language.Und
Und == MkTag("und", "")

BaseTags ==
    { MkTag("en", ""), MkTag("en", "US"), MkTag("en", "GB"),
      MkTag("el", ""), MkTag("el", "GR"),
      MkTag("zh", "CN"), MkTag("zh", "TW"), Und }

Regions == {"US", "GB", "GR", "CN", "TW"}

AllTags == BaseTags \cup { [t EXCEPT !.rg = r] : t \in BaseTags \ {Und}, r \in Regions }

LowerRegion(r) ==
    CASE r = "US" -> "us" [] r = "GB" -> "gb" [] r = "GR" -> "gr"
      [] r = "CN" -> "cn" [] r = "TW" -> "tw" [] OTHER -> ""

\* Tag.String
TagString(t) ==
    LET base == IF t.region = "" THEN t.lang ELSE t.lang \o "-" \o t.region
    IN  IF t.rg = "" THEN base ELSE base \o "-u-rg-" \o LowerRegion(t.rg) \o "zzzz"

\* the codes language.Parse accepts, each with the tag it yields
ParseMap ==
    [s \in { TagString(t) : t \in AllTags } |-> CHOOSE t \in AllTags : TagString(t) = s]

\* language.Parse: err is TRUE for a code that is no well-formed, known tag
\* ("", "ch-ZN", "default", a file or directory name); "und" parses to Und
Parse(s) ==
    IF s \in DOMAIN ParseMap
    THEN [err |-> FALSE, tag |-> ParseMap[s]]
    ELSE [err |-> TRUE, tag |-> Und]

\* Tag.Maximize, as far as the matcher compares its result: the likely
\* region of a tag without one, and the script the tag is written in
MaxRegion(t) ==
    IF t.region # "" THEN t.region
    ELSE CASE t.lang = "en" -> "US" [] t.lang = "el" -> "GR"
           [] t.lang = "zh" -> "CN" [] OTHER -> ""

MaxScript(t) ==
    CASE t.lang = "zh" -> (IF MaxRegion(t) = "TW" THEN "Hant" ELSE "Hans")
      [] t.lang = "el" -> "Grek"
      [] t.lang = "en" -> "Latn"
      [] OTHER -> ""

\* the confidence of one supported tag for a wanted tag: Exact for the same
\* maximized tag, High for another region of the same language, Low for
\* another script of the same language, No otherwise. The undefined tag
\* matches only itself.
Conf(want, have) ==
    IF want.lang = "und" THEN (IF have.lang = "und" THEN Exact ELSE No)
    ELSE IF have.lang # want.lang THEN No
    ELSE IF MaxScript(have) # MaxScript(want) THEN Low
    ELSE IF MaxRegion(have) # MaxRegion(want) THEN High
    ELSE Exact

BestConf(tags, want) ==
    IF \E c \in {Exact, High, Low} : \E j \in 1..Len(tags) : Conf(want, tags[j]) = c
    THEN CHOOSE c \in {Exact, High, Low} :
            /\ \E j \in 1..Len(tags) : Conf(want, tags[j]) = c
            /\ \A j \in 1..Len(tags) : Conf(want, tags[j]) <= c
    ELSE No

\* the result tag carries the wanted region as -u-rg- when it differs from
\* the matched tag's region
Decorate(tt, want) ==
    IF want.region # tt.region /\ want.region # "" /\ tt.lang # "und"
    THEN [tt EXCEPT !.rg = want.region]
    ELSE tt

\* language.Matcher.Match for one wanted tag over the supported list
\* "tags": the first supported tag of the best confidence; with no match
\* at all, the default (first) tag, index 0 and confidence No
MatchTags(tags, want) ==
    LET c == BestConf(tags, want)
    IN  IF c = No
        THEN [tag   |-> IF Len(tags) > 0 THEN Decorate(tags[1], want) ELSE Und,
              index |-> 0,
              conf  |-> No]
        ELSE LET j == CHOOSE k \in 1..Len(tags) :
                        /\ Conf(want, tags[k]) = c
                        /\ \A m \in 1..(k - 1) : Conf(want, tags[m]) # c
             IN  [tag |-> Decorate(tags[j], want), index |-> j - 1, conf |-> c]

\* ------------------------------------------------------------ Matcher

\* language.NewMatcher(tags): the matcher keeps the list it was built from
NewMatcher(tags) == tags

\* Matcher.Match, on a matcher value m = [Languages, matcher, strict]
Match(m, t) == MatchTags(m.matcher, t)

\* MatchOrAdd putting the new tag in front of the registered ones
MatchOrAdd_Prepends(m, t) ==
    LET Matched(r) ==
            IF r.conf <= Low /\ ~m.strict
            THEN LET langs == <<t>> \o m.Languages
                 IN  [m     |-> [m EXCEPT !.Languages = langs,
                                          !.matcher = NewMatcher(langs)],
                      tag   |-> t,
                      index |-> 0,
                      conf  |-> Exact]
            ELSE [m |-> m, tag |-> r.tag, index |-> r.index, conf |-> r.conf]
    IN  Matched(Match(m, t))

\* MatchOrAdd appending the tag without rebuilding the language.Matcher
MatchOrAdd_KeepsMatcher(m, t) ==
    LET Matched(r) ==
            IF r.conf <= Low /\ ~m.strict
            THEN LET langs == Append(m.Languages, t)
                 IN  [m     |-> [m EXCEPT !.Languages = langs],
                      tag   |-> t,
                      index |-> Len(langs) - 1,
                      conf  |-> Exact]
            ELSE [m |-> m, tag |-> r.tag, index |-> r.index, conf |-> r.conf]
    IN  Matched(Match(m, t))

\* Matcher.MatchOrAdd: the matcher after the call and the call's results
MatchOrAdd(m, t) ==
    LET Matched(r) ==
            IF r.conf <= Low /\ ~m.strict
            THEN LET langs == Append(m.Languages, t)
                 IN  [m     |-> [m EXCEPT !.Languages = langs, !.matcher = NewMatcher(langs)],
                      tag   |-> t,
                      index |-> Len(langs) - 1,
                      conf  |-> Exact]
            ELSE [m |-> m, tag |-> r.tag, index |-> r.index, conf |-> r.conf]
    IN  Matched(Match(m, t))

\* ------------------------------------------------ path language extractor

\* A path is a sequence of chunks: the one-character separators "/", "_"
\* and ".", and names that hold none of them. Adjacent names are one name.
IsSep(c) == c \in {"_", "/", "."}

\* strings.LastIndexByte(path, '.'), 0-based, -1 when there is none
LastDot(path) ==
    IF \E i \in 1..Len(path) : path[i] = "."
    THEN (CHOOSE i \in 1..Len(path) :
            /\ path[i] = "."
            /\ \A j \in (i + 1)..Len(path) : path[j] # ".") - 1
    ELSE -1

\* strings.FieldsFunc(path, IsSep): the maximal runs of non-separators
RECURSIVE FieldsFrom(_, _, _)
FieldsFrom(path, i, cur) ==
    IF i > Len(path)
    THEN (IF cur = "" THEN <<>> ELSE <<cur>>)
    ELSE IF IsSep(path[i])
         THEN (IF cur = "" THEN <<>> ELSE <<cur>>) \o FieldsFrom(path, i + 1, "")
         ELSE FieldsFrom(path, i + 1, cur \o path[i])

Fields(path) == FieldsFrom(path, 1, "")

reverseStrings(s) == [i \in 1..Len(s) |-> s[Len(s) + 1 - i]]

\* the first name, in the given order, that language.Parse accepts
RECURSIVE FirstParsed(_)
FirstParsed(names) ==
    IF names = <<>> THEN [tag |-> Und, ok |-> FALSE]
    ELSE IF Parse(Head(names)).err THEN FirstParsed(Tail(names))
    ELSE [tag |-> Parse(Head(names)).tag, ok |-> TRUE]

parseLanguage(path) ==
    LET idx   == LastDot(path)
        p     == IF idx > 0 THEN SubSeq(path, 1, idx) ELSE path
        names == reverseStrings(Fields(p))
    IN  FirstParsed(names)

\* parsePath: the matcher after the call and the language index, -1 for a
\* path with no language or no usable match
parsePath(m, path) ==
    LET Matched(r) == [m |-> r.m, index |-> IF r.conf > Low THEN r.index ELSE -1]
        Parsed(pl) == IF pl.ok THEN Matched(MatchOrAdd(m, pl.tag))
                      ELSE [m |-> m, index |-> -1]
    IN  Parsed(parseLanguage(path))

\* Matcher.ParseLanguageFiles over the files still to read: the matcher
\* after the call and the map from language index to that language's files
RECURSIVE ParseLanguageFilesFrom(_, _, _)
ParseLanguageFilesFrom(m, files, languageFiles) ==
    LET Bucketed(r) ==
            LET i == r.index
            IN  IF i = -1
                THEN ParseLanguageFilesFrom(r.m, Tail(files), languageFiles)
                ELSE ParseLanguageFilesFrom(r.m, Tail(files),
                       [k \in DOMAIN languageFiles \cup {i} |->
                           IF k = i
                           THEN (IF i \in DOMAIN languageFiles
                                 THEN Append(languageFiles[i], Head(files))
                                 ELSE <<Head(files)>>)
                           ELSE languageFiles[k]])
    IN  IF files = <<>> THEN [m |-> m, languageFiles |-> languageFiles]
        ELSE Bucketed(parsePath(m, Head(files).path))

ParseLanguageFiles(m, files) == ParseLanguageFilesFrom(m, files, <<>>)

\* ------------------------------------------------- Locale and registry

Keys == {"hi", "bye"}

\* a *Locale: its language tag, its index at load time and its flattened
\* message table (a function from some of the keys to raw messages)
MkLocale(index, tag, table) ==
    [nil |-> FALSE, index |-> index, tag |-> tag, table |-> table]

NilLocale == [nil |-> TRUE, index |-> -1, tag |-> Und, table |-> <<>>]

\* Locale.Language
LocaleLanguage(loc) == TagString(loc.tag)

\* Locale.GetMessage: "" for a key the table lacks; a present message is
\* rendered in the Locale's own language ("" when it renders to nothing)
LocaleGetMessage(loc, key) ==
    IF key \notin DOMAIN loc.table THEN ""
    ELSE IF loc.table[key] = "" THEN ""
    ELSE LocaleLanguage(loc) \o ":" \o loc.table[key]

\* Localizer.GetLocale on the in-memory registry: nil for an index it lacks
LocalizerGetLocale(l, index) ==
    IF index \in DOMAIN l THEN l[index] ELSE NilLocale

\* the registry's SetDefault(index): exchanges the stored Locales of slot 0
\* and slot index; refuses an index it has no Locale for
LocalizerSetDefault(l, index) ==
    IF index \in DOMAIN l /\ ~l[index].nil
    THEN [ok |-> TRUE,
          l  |-> [k \in DOMAIN l \cup {0} |->
                    IF k = 0 THEN l[index]
                    ELSE IF k = index THEN LocalizerGetLocale(l, 0)
                    ELSE l[k]]]
    ELSE [ok |-> FALSE, l |-> l]

\* later sources of one language are laid over earlier ones key by key
RECURSIVE MergeTables(_)
MergeTables(files) ==
    IF files = <<>> THEN <<>>
    ELSE LET init == MergeTables(SubSeq(files, 1, Len(files) - 1))
             top  == files[Len(files)].table
         IN  [k \in DOMAIN init \cup DOMAIN top |->
                IF k \in DOMAIN top THEN top[k] ELSE init[k]]

\* ------------------------------------------------------ loader and New

\* a Loader over the given files: buckets them by language, builds one
\* Locale per bucket, and fails when there is none
Loader(m, files) ==
    LET Loaded(plf) ==
            LET locales == [idx \in DOMAIN plf.languageFiles |->
                              MkLocale(idx, At(plf.m.Languages, idx),
                                       MergeTables(plf.languageFiles[idx]))]
            IN  [m |-> plf.m, err |-> DOMAIN locales = {}, localizer |-> locales]
    IN  Loaded(ParseLanguageFiles(m, files))

\* makeTags: the codes that parse, in order, without the undefined tag
RECURSIVE makeTags(_)
makeTags(languages) ==
    IF languages = <<>> THEN <<>>
    ELSE LET p == Parse(Head(languages))
         IN  IF ~p.err /\ p.tag # Und
             THEN <<p.tag>> \o makeTags(Tail(languages))
             ELSE makeTags(Tail(languages))

\* New(loader, languages...) with its reload: the instance, or err
New(files, languages) ==
    LET Reloaded(r) ==
            [err |-> r.err, Languages |-> r.m.Languages, matcher |-> r.m.matcher,
             strict |-> r.m.strict, localizer |-> r.localizer]
        Made(tags) ==
            Reloaded(Loader([strict |-> Len(tags) > 0, Languages |-> tags,
                             matcher |-> NewMatcher(tags)], files))
    IN  Made(makeTags(languages))

\* ------------------------------------------------------------ lookups

\* the instance the operations below act on
Self ==
    [Languages |-> Languages, matcher |-> matcher, strict |-> strict,
     localizer |-> localizer, cfg |-> cfg]

\* a DefaultMessageFunc: its result tells which arguments it received
MessageFunc(langInput, langMatched, key) ==
    "dmf(" \o langInput \o "," \o langMatched \o "," \o key \o ")"

\* TryMatchString taking a match of confidence Low for a match
TryMatchString_AcceptsLow(i, s) ==
    LET Matched(p, r) ==
            IF ~p.err /\ r.conf >= Low
            THEN [tag |-> r.tag, index |-> r.index, ok |-> TRUE]
            ELSE [tag |-> Und, index |-> -1, ok |-> FALSE]
        Parsed(p) == Matched(p, MatchTags(i.matcher, p.tag))
    IN  Parsed(Parse(s))

\* I18n.TryMatchString
TryMatchString(i, s) ==
    LET Matched(p, r) ==
            IF ~p.err /\ r.conf > Low
            THEN [tag |-> r.tag, index |-> r.index, ok |-> TRUE]
            ELSE [tag |-> Und, index |-> -1, ok |-> FALSE]
        Parsed(p) == Matched(p, MatchTags(i.matcher, p.tag))
    IN  Parsed(Parse(s))

\* Tr retrying against index 0 although a DefaultMessageFunc is configured
Tr_RetriesDespiteDefaultMessageFunc(i, lang, key) ==
    LET Rendered(index, loc, loc0) ==
            LET langMatched == IF loc.nil THEN "" ELSE LocaleLanguage(loc)
                own   == IF loc.nil THEN "" ELSE LocaleGetMessage(loc, key)
                retry == ~loc.nil /\ own = "" /\ ~i.cfg.Strict /\ index > 0
                msg   == IF retry THEN LocaleGetMessage(loc0, key) ELSE own
            IN  IF retry /\ loc0.nil
                THEN [panic |-> TRUE, ret |-> "", index |-> index, fallback |-> TRUE,
                      dmf |-> <<>>]
                ELSE IF msg = "" /\ i.cfg.DefaultMessageFunc
                THEN [panic |-> FALSE, ret |-> MessageFunc(lang, langMatched, key),
                      index |-> index, fallback |-> retry,
                      dmf |-> <<lang, langMatched, key>>]
                ELSE [panic |-> FALSE, ret |-> msg, index |-> index, fallback |-> retry,
                      dmf |-> <<>>]
        Resolved(index) ==
            Rendered(index, LocalizerGetLocale(i.localizer, index),
                     LocalizerGetLocale(i.localizer, 0))
        Matched(m) == Resolved(IF m.ok THEN m.index ELSE 0)
    IN  Matched(TryMatchString(i, lang))

\* Tr retrying against index 0 although Strict is set
Tr_RetriesDespiteStrict(i, lang, key) ==
    LET Rendered(index, loc, loc0) ==
            LET langMatched == IF loc.nil THEN "" ELSE LocaleLanguage(loc)
                own   == IF loc.nil THEN "" ELSE LocaleGetMessage(loc, key)
                retry == ~loc.nil /\ own = "" /\ ~i.cfg.DefaultMessageFunc /\ index > 0
                msg   == IF retry THEN LocaleGetMessage(loc0, key) ELSE own
            IN  IF retry /\ loc0.nil
                THEN [panic |-> TRUE, ret |-> "", index |-> index, fallback |-> TRUE,
                      dmf |-> <<>>]
                ELSE IF msg = "" /\ i.cfg.DefaultMessageFunc
                THEN [panic |-> FALSE, ret |-> MessageFunc(lang, langMatched, key),
                      index |-> index, fallback |-> retry,
                      dmf |-> <<lang, langMatched, key>>]
                ELSE [panic |-> FALSE, ret |-> msg, index |-> index, fallback |-> retry,
                      dmf |-> <<>>]
        Resolved(index) ==
            Rendered(index, LocalizerGetLocale(i.localizer, index),
                     LocalizerGetLocale(i.localizer, 0))
        Matched(m) == Resolved(IF m.ok THEN m.index ELSE 0)
    IN  Matched(TryMatchString(i, lang))

\* I18n.Tr: panic tells a nil Locale dereference; fallback tells whether
\* the table of index 0 was consulted; dmf holds the arguments the
\* DefaultMessageFunc was called with, if it was
Tr(i, lang, key) ==
    LET Rendered(index, loc, loc0) ==
            LET langMatched == IF loc.nil THEN "" ELSE LocaleLanguage(loc)
                own   == IF loc.nil THEN "" ELSE LocaleGetMessage(loc, key)
                retry == /\ ~loc.nil
                         /\ own = ""
                         /\ ~i.cfg.DefaultMessageFunc
                         /\ ~i.cfg.Strict
                         /\ index > 0
                msg   == IF retry THEN LocaleGetMessage(loc0, key) ELSE own
            IN  IF retry /\ loc0.nil
                THEN [panic |-> TRUE, ret |-> "", index |-> index, fallback |-> TRUE,
                      dmf |-> <<>>]
                ELSE IF msg = "" /\ i.cfg.DefaultMessageFunc
                THEN [panic |-> FALSE, ret |-> MessageFunc(lang, langMatched, key),
                      index |-> index, fallback |-> retry,
                      dmf |-> <<lang, langMatched, key>>]
                ELSE [panic |-> FALSE, ret |-> msg, index |-> index, fallback |-> retry,
                      dmf |-> <<>>]
        Resolved(index) ==
            Rendered(index, LocalizerGetLocale(i.localizer, index),
                     LocalizerGetLocale(i.localizer, 0))
        Matched(m) == Resolved(IF m.ok THEN m.index ELSE 0)
    IN  Matched(TryMatchString(i, lang))

\* A request, as far as language detection reads it:
\*   ctx     the value under ContextKey: CtxNil, CtxOther (not a string) or a string
\*   extract the result of ExtractFunc
\*   url     the URLParameter query value, "" when absent
\*   cookie  the value of the cookie named Cookie, NoCookie when absent
\*   host    the labels of the host name
\*   header  the codes of the Accept-Language header, most wanted first
CtxNil == "<nil>"
CtxOther == "<not a string>"
NoCookie == "<no cookie>"

\* getSubdomain: the text before the first dot of the host, "" without one
getSubdomain(r) == IF Len(r.host) > 1 THEN r.host[1] ELSE ""

\* language.ParseAcceptLanguage
RECURSIVE ParseAcceptLanguage(_)
ParseAcceptLanguage(codes) ==
    IF codes = <<>> THEN [err |-> FALSE, tags |-> <<>>]
    ELSE LET p    == Parse(Head(codes))
             rest == ParseAcceptLanguage(Tail(codes))
         IN  IF p.err \/ rest.err THEN [err |-> TRUE, tags |-> <<>>]
             ELSE [err |-> FALSE, tags |-> <<p.tag>> \o rest.tags]

\* language.Matcher.Match for several wanted tags: the best confidence any
\* of them reaches, for the first wanted tag that reaches it
MatchMany(tags, wants) ==
    IF wants = <<>> THEN [tag |-> Und, index |-> 0, conf |-> No]
    ELSE LET best == CHOOSE c \in {No, Low, High, Exact} :
                        /\ \E j \in 1..Len(wants) : MatchTags(tags, wants[j]).conf = c
                        /\ \A j \in 1..Len(wants) : MatchTags(tags, wants[j]).conf <= c
             w    == CHOOSE j \in 1..Len(wants) :
                        /\ MatchTags(tags, wants[j]).conf = best
                        /\ \A k \in 1..(j - 1) : MatchTags(tags, wants[k]).conf # best
         IN  MatchTags(tags, wants[w])

\* one detection step of GetLocale: a signal is tried only while ok is
\* false, and a tried signal overwrites both index and ok
TrySignal(i, st, enabled, present, v) ==
    LET Tried(m) == [index |-> m.index, ok |-> m.ok]
    IN  IF ~st.ok /\ enabled /\ present THEN Tried(TryMatchString(i, v)) ELSE st

\* the Accept-Language step of GetLocale: sets index only on a match
TryHeader(i, st, r) ==
    LET Matched(d, m) ==
            IF ~d.err /\ m.conf > Low THEN [st EXCEPT !.index = m.index] ELSE st
        Parsed(d) == Matched(d, MatchMany(i.matcher, d.tags))
    IN  IF ~st.ok /\ r.header # <<>> THEN Parsed(ParseAcceptLanguage(r.header)) ELSE st

\* the language index I18n.GetLocale resolves the request to
GetLocaleIndex(i, r) ==
    IF i.cfg.ContextKey /\ r.ctx \notin {CtxNil, CtxOther}
    THEN (IF r.ctx = "default" THEN 0 ELSE TryMatchString(i, r.ctx).index)
    ELSE LET s0 == [index |-> 0, ok |-> FALSE]
             s1 == TrySignal(i, s0, i.cfg.ExtractFunc, r.extract # "", r.extract)
             s2 == TrySignal(i, s1, i.cfg.URLParameter, r.url # "", r.url)
             s3 == TrySignal(i, s2, i.cfg.Cookie, r.cookie # NoCookie, r.cookie)
             s4 == TrySignal(i, s3, i.cfg.Subdomain, getSubdomain(r) # "", getSubdomain(r))
             s5 == TryHeader(i, s4, r)
         IN  s5.index

\* I18n.GetLocale
GetLocale(i, r) == LocalizerGetLocale(i.localizer, GetLocaleIndex(i, r))

\* I18n.GetMessage
GetMessage(i, r, key) ==
    LET Rendered(loc, loc0) ==
            LET langMatched == IF loc.nil THEN "" ELSE LocaleLanguage(loc)
                own   == IF loc.nil THEN "" ELSE LocaleGetMessage(loc, key)
                retry == /\ ~loc.nil
                         /\ own = ""
                         /\ ~i.cfg.DefaultMessageFunc
                         /\ ~i.cfg.Strict
                         /\ loc.index > 0
            IN  IF retry
                THEN (IF loc0.nil
                      THEN [panic |-> TRUE, ret |-> "", fallback |-> TRUE, dmf |-> <<>>]
                      ELSE [panic |-> FALSE, ret |-> LocaleGetMessage(loc0, key),
                            fallback |-> TRUE, dmf |-> <<>>])
                ELSE IF /\ own = ""
                        /\ i.cfg.DefaultMessageFunc
                        /\ i.cfg.ContextKey
                        /\ r.ctx \notin {CtxNil, CtxOther}
                THEN [panic |-> FALSE, ret |-> MessageFunc(r.ctx, langMatched, key),
                      fallback |-> FALSE, dmf |-> <<r.ctx, langMatched, key>>]
                ELSE [panic |-> FALSE, ret |-> own, fallback |-> FALSE, dmf |-> <<>>]
    IN  Rendered(GetLocale(i, r), LocalizerGetLocale(i.localizer, 0))

\* SetDefault exchanging the tags but leaving the registry as it was
SetDefault_KeepsRegistry(i, langCode) ==
    LET Swapped(p, r, l) ==
            IF ~p.err /\ r.conf > Low /\ l.ok
            THEN LET tags == [k \in 1..Len(i.Languages) |->
                                IF k = 1 THEN r.tag
                                ELSE IF k = r.index + 1 THEN i.Languages[1]
                                ELSE i.Languages[k]]
                 IN  [ok |-> TRUE, index |-> r.index,
                      i  |-> [i EXCEPT !.Languages = tags, !.matcher = NewMatcher(tags)]]
            ELSE [ok |-> FALSE, index |-> -1, i |-> i]
        Matched(p, r) == Swapped(p, r, LocalizerSetDefault(i.localizer, r.index))
        Parsed(p) == Matched(p, MatchTags(i.matcher, p.tag))
    IN  Parsed(Parse(langCode))

\* I18n.SetDefault: the instance after the call and the call's result
SetDefault(i, langCode) ==
    LET Swapped(p, r, l) ==
            IF ~p.err /\ r.conf > Low /\ l.ok
            THEN LET tags == [k \in 1..Len(i.Languages) |->
                                IF k = 1 THEN r.tag
                                ELSE IF k = r.index + 1 THEN i.Languages[1]
                                ELSE i.Languages[k]]
                 IN  [ok |-> TRUE, index |-> r.index,
                      i  |-> [i EXCEPT !.localizer = l.l, !.Languages = tags,
                                       !.matcher = NewMatcher(tags)]]
            ELSE [ok |-> FALSE, index |-> -1, i |-> i]
        Matched(p, r) == Swapped(p, r, LocalizerSetDefault(i.localizer, r.index))
        Parsed(p) == Matched(p, MatchTags(i.matcher, p.tag))
    IN  Parsed(Parse(langCode))

\* ------------------------------------------------------------- inputs

MkFile(path, table) == [path |-> path, table |-> table]

\* the resource files a glob may yield
Files ==
    { MkFile(<<"locales", "/", "en-US", "/", "a", ".", "yml">>, ("hi" :> "m1") @@ ("bye" :> "m1")),
      MkFile(<<"locales", "/", "en-US", "/", "b", ".", "yml">>, ("hi" :> "m2")),
      MkFile(<<"locales", "/", "el-GR", "/", "a", ".", "yml">>, ("hi" :> "m1")),
      MkFile(<<"locales", "/", "b", ".", "el-GR", ".", "yml">>, ("hi" :> "") @@ ("bye" :> "m1")),
      MkFile(<<"locales", "/", "en-GB", "/", "a", ".", "yml">>, ("bye" :> "m2")),
      MkFile(<<"locales", "/", "zh-CN", "/", "a", ".", "yml">>, ("hi" :> "m1")),
      MkFile(<<"locales", "/", "readme", ".", "txt">>, ("hi" :> "m1")) }

\* the sequences of at most n distinct members of S
RECURSIVE SeqsUpTo(_, _)
SeqsUpTo(S, n) ==
    IF n = 0 THEN {<<>>}
    ELSE LET shorter == SeqsUpTo(S, n - 1)
         IN  shorter \cup
             { Append(q, x) : q \in {t \in shorter : Len(t) = n - 1}, x \in S }

Distinct(q) == \A a, b \in 1..Len(q) : a # b => q[a] # q[b]

FileLists == { q \in SeqsUpTo(Files, MaxFiles) : Distinct(q) }

\* the codes given to New; "ch-ZN" does not parse
NewCodes == {"en-US", "el-GR", "ch-ZN"}

LanguageLists == SeqsUpTo(NewCodes, MaxLangs)

\* the codes callers ask for
Codes == {"en-US", "en", "en-GB", "el-GR", "el", "zh-TW", "ch-ZN", "und"}

SetDefaultCodes == {"en-US", "el-GR", "en-GB", "zh-TW", "ch-ZN"}

Booleans == {TRUE, FALSE}

\* the configurations of the lookup runs: no request signal but the
\* context key is configured
Config(strictMode, dmf, contextKey) ==
    [Strict |-> strictMode, DefaultMessageFunc |-> dmf, ContextKey |-> contextKey,
     ExtractFunc |-> FALSE, URLParameter |-> FALSE, Cookie |-> FALSE,
     Subdomain |-> FALSE]

\* the configurations of the request-detection runs: any set of signals,
\* with the default-language retry on
HttpConfigs ==
    [Strict : {FALSE}, DefaultMessageFunc : {FALSE}, ContextKey : Booleans,
     ExtractFunc : Booleans, URLParameter : Booleans, Cookie : Booleans,
     Subdomain : Booleans]

Hosts == { <<"example", "com">>, <<"el", "example", "com">> }

Headers == { <<>>, <<"el-GR">> }

\* the requests an instance configured as c can tell apart: a signal that
\* is not configured has no name to be looked up under
Requests(c) ==
    [ctx     : IF c.ContextKey THEN {CtxNil, CtxOther, "default", "el-GR", "ch-ZN"}
               ELSE {CtxNil},
     extract : IF c.ExtractFunc THEN {"", "en-US", "ch-ZN"} ELSE {""},
     url     : IF c.URLParameter THEN {"", "el-GR", "ch-ZN"} ELSE {""},
     cookie  : IF c.Cookie THEN {NoCookie, "en-US", "ch-ZN"} ELSE {NoCookie},
     host    : IF c.Subdomain THEN Hosts ELSE {<<"example", "com">>},
     header  : Headers]

\* the chunks paths are made of: the separators, two language codes, a
\* file name and an extension
PathChunks == {"/", ".", "_", "el-GR", "en-US", "file", "yml"}

\* the non-empty paths given to parseLanguage
Paths == SeqsUpTo(PathChunks, MaxPathLen) \ {<<>>}

\* ------------------------------------------------------ state machine

Idle == [op |-> "idle"]

\* the goroutines that may call reload
Reloaders == {1, 2}

\* no reload and no concurrent Tr in progress
NoCalls == [reload |-> [p \in Reloaders |-> [pc |-> "idle"]], tr |-> [pc |-> "idle"]]

\* the instance New returns, configured
InitWith(files, languages, c) ==
    \E n \in {New(files, languages)} :
        /\ ~n.err
        /\ Languages = n.Languages
        /\ matcher = n.matcher
        /\ strict = n.strict
        /\ localizer = n.localizer
        /\ cfg = c
        /\ last = Idle
        /\ mu = 0
        /\ calls = NoCalls

Init ==
    \E files \in FileLists, languages \in LanguageLists, c \in [1..3 -> Booleans] :
        InitWith(files, languages, Config(c[1], c[2], c[3]))

\* the instances of the request-detection runs: en-US and el-GR registered,
\* with resources for both or for el-GR only, under any configuration
HttpFileLists ==
    { << MkFile(<<"locales", "/", "en-US", "/", "a", ".", "yml">>, ("hi" :> "m1") @@ ("bye" :> "m1")),
         MkFile(<<"locales", "/", "el-GR", "/", "a", ".", "yml">>, ("hi" :> "m1")) >>,
      << MkFile(<<"locales", "/", "el-GR", "/", "a", ".", "yml">>, ("hi" :> "m1")) >> }

InitHttp ==
    \E files \in HttpFileLists, c \in HttpConfigs :
        InitWith(files, <<"en-US", "el-GR">>, c)

\* a Tr whose matching step registers the code it could not match
TrCall_Registers(lang, key) ==
    /\ last = Idle
    /\ \E r \in {MatchOrAdd([strict |-> strict, Languages |-> Languages,
                           matcher |-> matcher], Parse(lang).tag)} :
        /\ Languages' = r.m.Languages
        /\ matcher' = r.m.matcher
        /\ last' = [op |-> "Tr", lang |-> lang, key |-> key, res |-> Tr(Self, lang, key)]
    /\ UNCHANGED <<strict, localizer, cfg, mu, calls>>

TrCall(lang, key) ==
    /\ last = Idle
    /\ last' = [op |-> "Tr", lang |-> lang, key |-> key, res |-> Tr(Self, lang, key)]
    /\ UNCHANGED <<Languages, matcher, strict, localizer, cfg, mu, calls>>

GetLocaleCall(r) ==
    /\ last = Idle
    /\ last' = [op |-> "GetLocale", r |-> r, index |-> GetLocaleIndex(Self, r),
                loc |-> GetLocale(Self, r)]
    /\ UNCHANGED <<Languages, matcher, strict, localizer, cfg, mu, calls>>

GetMessageCall(r, key) ==
    /\ last = Idle
    /\ last' = [op |-> "GetMessage", r |-> r, key |-> key,
                index |-> GetLocaleIndex(Self, r), res |-> GetMessage(Self, r, key)]
    /\ UNCHANGED <<Languages, matcher, strict, localizer, cfg, mu, calls>>

SetDefaultCall(langCode) ==
    /\ last = Idle
    /\ \E sd \in {SetDefault(Self, langCode)} :
        /\ Languages' = sd.i.Languages
        /\ matcher' = sd.i.matcher
        /\ localizer' = sd.i.localizer
        /\ last' = [op |-> "SetDefault", langCode |-> langCode, ok |-> sd.ok,
                    index |-> sd.index, pre |-> Self]
    /\ UNCHANGED <<strict, cfg, mu, calls>>

\* the caller takes the result; calls on one goroutine follow one another
Return ==
    /\ last # Idle
    /\ last' = Idle
    /\ UNCHANGED <<Languages, matcher, strict, localizer, cfg, mu, calls>>

Next ==
    \/ \E lang \in Codes, key \in Keys : TrCall(lang, key)
    \/ \E r \in Requests(cfg) : GetLocaleCall(r)
    \/ \E r \in Requests(cfg), key \in Keys : GetMessageCall(r, key)
    \/ \E langCode \in SetDefaultCodes : SetDefaultCall(langCode)
    \/ Return

Spec == Init /\ [][Next]_vars

SpecHttp == InitHttp /\ [][Next]_vars

\* the instance of the path-extraction runs
InitPath ==
    InitWith(<< MkFile(<<"locales", "/", "en-US", "/", "a", ".", "yml">>, ("hi" :> "m1")) >>,
             <<"en-US">>, Config(FALSE, FALSE, FALSE))

ParseLanguageCall(path) ==
    /\ last = Idle
    /\ last' = [op |-> "parseLanguage", path |-> path, res |-> parseLanguage(path)]
    /\ UNCHANGED <<Languages, matcher, strict, localizer, cfg, mu, calls>>

NextPath ==
    \/ \E path \in Paths : ParseLanguageCall(path)
    \/ Return

SpecPath == InitPath /\ [][NextPath]_vars

\* the Matcher New hands to the loader, before anything is loaded
InitMatcher ==
    \E languages \in LanguageLists :
        \E tags \in {makeTags(languages)} :
            /\ Languages = tags
            /\ matcher = NewMatcher(tags)
            /\ strict = (Len(tags) > 0)
            /\ localizer = <<>>
            /\ cfg = Config(FALSE, FALSE, FALSE)
            /\ last = Idle
            /\ mu = 0
            /\ calls = NoCalls

\* the Matcher the loader holds
TheMatcher == [strict |-> strict, Languages |-> Languages, matcher |-> matcher]

\* a loader calls Matcher.MatchOrAdd
MatchOrAddCall(t) ==
    /\ last = Idle
    /\ \E r \in {MatchOrAdd(TheMatcher, t)} :
        /\ Languages' = r.m.Languages
        /\ matcher' = r.m.matcher
        /\ last' = [op |-> "MatchOrAdd", t |-> t, tag |-> r.tag, index |-> r.index,
                    conf |-> r.conf, pre |-> TheMatcher]
    /\ UNCHANGED <<strict, localizer, cfg, mu, calls>>

NextMatcher ==
    \/ \E t \in BaseTags : MatchOrAddCall(t)
    \/ Return

SpecMatcher == InitMatcher /\ [][NextMatcher]_vars

\* ------------------------------------------------ reload, step by step

\* the files that may exist when reload runs, in the order filepath.Glob
\* lists them (sorted by name)
ReloadFiles ==
    << MkFile(<<"locales", "/", "el-GR", "/", "a", ".", "yml">>, ("hi" :> "m1")),
       MkFile(<<"locales", "/", "en-US", "/", "a", ".", "yml">>, ("hi" :> "m1") @@ ("bye" :> "m1")),
       MkFile(<<"locales", "/", "readme", ".", "txt">>, ("hi" :> "m1")) >>

\* what the glob yields: some of the files, in that order
ReloadFileLists ==
    { q \in SeqsUpTo(1..Len(ReloadFiles), MaxFiles) :
        \A k \in 1..(Len(q) - 1) : q[k] < q[k + 1] }

\* the files a glob result names
Globbed(q) == [k \in 1..Len(q) |-> ReloadFiles[q[k]]]

\* the code and the key a concurrent Tr asks for
TrCodes == {"el-GR"}

TrKeys == {"hi"}

\* ParseLanguageFiles' languageFiles[index] = append(languageFiles[index], path)
Bucket(languageFiles, i, file) ==
    IF i = -1 THEN languageFiles
    ELSE [k \in DOMAIN languageFiles \cup {i} |->
            IF k = i
            THEN (IF i \in DOMAIN languageFiles
                  THEN Append(languageFiles[i], file)
                  ELSE <<file>>)
            ELSE languageFiles[k]]

\* the loader's registry: one Locale per language that has files
Locales(tags, languageFiles) ==
    [idx \in DOMAIN languageFiles |->
        MkLocale(idx, At(tags, idx), MergeTables(languageFiles[idx]))]

\* New has built the Matcher and is about to call reload; nothing is
\* published yet, and the instance is not yet returned to its caller
InitReload ==
    \E languages \in LanguageLists :
        \E tags \in {makeTags(languages)} :
            /\ Languages = tags
            /\ matcher = NewMatcher(tags)
            /\ strict = (Len(tags) > 0)
            /\ localizer = <<>>
            /\ cfg = Config(FALSE, FALSE, FALSE)
            /\ last = Idle
            /\ mu = 0
            /\ calls = [reload    |-> [p \in Reloaders |-> [pc |-> "idle"]],
                        tr        |-> [pc |-> "idle"],
                        languages |-> languages,
                        ready     |-> FALSE,
                        n         |-> 0,
                        runs      |-> 0,
                        published |-> tags]

\* what a reader of the instance can see
Published == [Languages |-> Languages, matcher |-> matcher, localizer |-> localizer]

\* reload is called: the first call is New's, the others are made on the
\* instance New returned
ReloadCall(p) ==
    /\ calls.reload[p].pc = "idle"
    /\ calls.n < MaxReloads
    /\ calls.ready \/ (p = 1 /\ calls.n = 0)
    /\ calls' = [calls EXCEPT !.n = @ + 1, !.reload[p] = [pc |-> "waiting"]]
    /\ UNCHANGED <<Languages, matcher, strict, localizer, cfg, last, mu>>

\* reload going on without waiting for the mutex
ReloadLock_NoMutex(p, files) ==
    /\ calls.reload[p].pc = "waiting"
    /\ mu' = p
    /\ calls' = [calls EXCEPT !.runs = @ + 1,
                              !.reload[p] = [pc |-> "loading", all |-> Globbed(files),
                                             rest |-> Globbed(files),
                                             languageFiles |-> <<>>,
                                             pre |-> Published]]
    /\ UNCHANGED <<Languages, matcher, strict, localizer, cfg, last>>

\* reload: i.mu.Lock() returns, and the loader starts on the files it finds
ReloadLock(p, files) ==
    /\ mu = 0
    /\ calls.reload[p].pc = "waiting"
    /\ mu' = p
    /\ calls' = [calls EXCEPT !.runs = @ + 1,
                              !.reload[p] = [pc |-> "loading", all |-> Globbed(files),
                                             rest |-> Globbed(files),
                                             languageFiles |-> <<>>,
                                             pre |-> Published]]
    /\ UNCHANGED <<Languages, matcher, strict, localizer, cfg, last>>

\* the loader's ParseLanguageFiles handles one more path: parsePath may
\* grow the Matcher that the instance shares with its readers
LoaderStep(p) ==
    /\ calls.reload[p].pc = "loading"
    /\ calls.reload[p].rest # <<>>
    /\ \E r \in {parsePath(TheMatcher, Head(calls.reload[p].rest).path)} :
        /\ Languages' = r.m.Languages
        /\ matcher' = r.m.matcher
        /\ calls' = [calls EXCEPT
                        !.reload[p].rest = Tail(@),
                        !.reload[p].languageFiles =
                            Bucket(@, r.index, Head(calls.reload[p].rest))]
    /\ UNCHANGED <<strict, localizer, cfg, last, mu>>

\* the loader returns an error: no locale was built, or a bucketed file
\* could not be read or decoded; reload returns it and unlocks
LoaderFail(p) ==
    /\ calls.reload[p].pc = "loading"
    /\ calls.reload[p].rest = <<>>
    /\ mu' = IF mu = p THEN 0 ELSE mu
    /\ calls' = [calls EXCEPT !.reload[p] =
                    [pc |-> "failed", all |-> calls.reload[p].all,
                     pre |-> calls.reload[p].pre, run |-> calls.runs]]
    /\ UNCHANGED <<Languages, matcher, strict, localizer, cfg, last>>

\* the loader returns its registry: reload stores it and unlocks
LoaderDone(p) ==
    /\ calls.reload[p].pc = "loading"
    /\ calls.reload[p].rest = <<>>
    /\ DOMAIN calls.reload[p].languageFiles # {}
    /\ localizer' = Locales(Languages, calls.reload[p].languageFiles)
    /\ mu' = IF mu = p THEN 0 ELSE mu
    /\ calls' = [calls EXCEPT !.published = Languages,
                              !.reload[p] =
                                  [pc |-> "done", all |-> calls.reload[p].all,
                                   pre |-> calls.reload[p].pre, run |-> calls.runs]]
    /\ UNCHANGED <<Languages, matcher, strict, cfg, last>>

\* reload's caller goes on: New returns the instance once its reload has
\* succeeded; a New whose reload failed returns no instance
ReloadReturn(p) ==
    /\ calls.reload[p].pc \in {"done", "failed"}
    /\ calls.ready \/ calls.reload[p].pc = "done"
    /\ calls' = [calls EXCEPT !.ready = TRUE, !.reload[p] = [pc |-> "idle"]]
    /\ UNCHANGED <<Languages, matcher, strict, localizer, cfg, last, mu>>

\* a concurrent Tr: TryMatchString reads the Matcher
TrMatch(lang, key) ==
    /\ calls.ready
    /\ calls.tr.pc = "idle"
    /\ calls' = [calls EXCEPT !.tr =
                    [pc |-> "matched", lang |-> lang, key |-> key,
                     tags |-> matcher, during |-> mu,
                     index |-> TryMatchString(Self, lang).index]]
    /\ UNCHANGED <<Languages, matcher, strict, localizer, cfg, last, mu>>

\* the same Tr goes on: i.localizer.GetLocale(index) and the rendering
TrFetch ==
    /\ calls.tr.pc = "matched"
    /\ calls' = [calls EXCEPT !.tr =
                    [pc |-> "done", lang |-> calls.tr.lang, key |-> calls.tr.key,
                     index |-> calls.tr.index, tags |-> calls.tr.tags,
                     during |-> calls.tr.during,
                     regTags |-> calls.published,
                     loc |-> LocalizerGetLocale(localizer,
                                IF calls.tr.index = -1 THEN 0 ELSE calls.tr.index),
                     res |-> Tr([Self EXCEPT !.matcher = calls.tr.tags,
                                             !.Languages = calls.tr.tags],
                                calls.tr.lang, calls.tr.key)]]
    /\ UNCHANGED <<Languages, matcher, strict, localizer, cfg, last, mu>>

TrReturn ==
    /\ calls.tr.pc = "done"
    /\ calls' = [calls EXCEPT !.tr = [pc |-> "idle"]]
    /\ UNCHANGED <<Languages, matcher, strict, localizer, cfg, last, mu>>

NextReload ==
    \/ \E p \in Reloaders : ReloadCall(p)
    \/ \E p \in Reloaders, files \in ReloadFileLists : ReloadLock(p, files)
    \/ \E p \in Reloaders : LoaderStep(p)
    \/ \E p \in Reloaders : LoaderFail(p)
    \/ \E p \in Reloaders : LoaderDone(p)
    \/ \E p \in Reloaders : ReloadReturn(p)
    \/ \E lang \in TrCodes, key \in TrKeys : TrMatch(lang, key)
    \/ TrFetch
    \/ TrReturn

SpecReload == InitReload /\ [][NextReload]_vars

\* the reload calls alone, with no reader beside them
NextMutex ==
    \/ \E p \in Reloaders : ReloadCall(p)
    \/ \E p \in Reloaders, files \in ReloadFileLists : ReloadLock(p, files)
    \/ \E p \in Reloaders : LoaderStep(p)
    \/ \E p \in Reloaders : LoaderFail(p)
    \/ \E p \in Reloaders : LoaderDone(p)
    \/ \E p \in Reloaders : ReloadReturn(p)

SpecMutex == InitReload /\ [][NextMutex]_vars

\* -------------------------------------------------------------- Router

\* the text a sequence of chunks spells
RECURSIVE Join(_)
Join(q) == IF q = <<>> THEN "" ELSE Head(q) \o Join(Tail(q))

\* the chunks request paths are made of
UrlChunks == {"/", "el-GR", "foo"}

\* r.URL.Path as chunks: empty (a request line "GET http://host HTTP/1.1"
\* has no path), or a "/" followed by segments and "/"s
UrlPaths ==
    { q \in SeqsUpTo(UrlChunks, MaxUrlLen) :
        /\ q # <<>> => q[1] = "/"
        /\ \A k \in 1..(Len(q) - 1) : q[k] = "/" \/ q[k + 1] = "/" }

\* the requests the Router wrapper receives: each configured signal is
\* absent or carries "en-US"
RouterRequests(c) ==
    [ctx     : IF c.ContextKey THEN {CtxNil, "en-US"} ELSE {CtxNil},
     extract : IF c.ExtractFunc THEN {"", "en-US"} ELSE {""},
     url     : IF c.URLParameter THEN {"", "en-US"} ELSE {""},
     cookie  : IF c.Cookie THEN {NoCookie, "en-US"} ELSE {NoCookie},
     host    : IF c.Subdomain THEN Hosts ELSE {<<"example", "com">>},
     header  : {<<>>, <<"en-US">>},
     path    : UrlPaths]

\* strings.IndexByte(path, '/') as a chunk position; 0 when there is none
SlashAt(path) ==
    IF \E k \in 1..Len(path) : path[k] = "/"
    THEN CHOOSE k \in 1..Len(path) :
            path[k] = "/" /\ \A j \in 1..(k - 1) : path[j] # "/"
    ELSE 0

\* Router's path: r.URL.Path[1:], cut before its first "/" unless that
\* "/" comes first
FirstSegment(urlPath) ==
    LET Cut(path, k) == IF k > 1 THEN SubSeq(path, 1, k - 1) ELSE path
    IN  Cut(Tail(urlPath), SlashAt(Tail(urlPath)))

\* setLang: a response cookie when Cookie is configured, else (with
\* URLParameter) a Set on a copy of the query that is thrown away; always
\* the Accept-Language header of the request
setLang(i, r, lang) ==
    [r         |-> [r EXCEPT !.header = <<lang>>],
     setCookie |-> IF i.cfg.Cookie THEN lang ELSE NoCookie]

\* I18n.Router up to next.ServeHTTP(w, r): panic tells r.URL.Path[1:] of
\* an empty path; r is the request next receives, setCookie the cookie
\* set on the response, lang the code handed to setLang ("" if none)
Router(i, r) ==
    LET Out(found, sl, lang) ==
            [panic |-> FALSE, found |-> found, lang |-> lang, r |-> sl.r,
             setCookie |-> sl.setCookie]
        Same == [r |-> r, setCookie |-> NoCookie]
        Stripped(rest) == IF rest = <<>> THEN <<"/">> ELSE rest
        BySubdomain(m) ==
            IF m.ok
            THEN Out("subdomain",
                     setLang(i, [r EXCEPT !.host = Tail(r.host)], TagString(m.tag)),
                     TagString(m.tag))
            ELSE Out("", Same, "")
        Subdomain ==
            IF i.cfg.Subdomain /\ Len(r.host) > 1 /\ r.host[1] # ""
            THEN BySubdomain(TryMatchString(i, r.host[1]))
            ELSE Out("", Same, "")
        ByPath(seg, m) ==
            IF m.ok
            THEN Out("path",
                     setLang(i, [r EXCEPT !.path =
                                    Stripped(SubSeq(r.path, Len(seg) + 2, Len(r.path)))],
                             TagString(m.tag)),
                     TagString(m.tag))
            ELSE Subdomain
        Segment(seg) ==
            IF Join(seg) # "" THEN ByPath(seg, TryMatchString(i, Join(seg)))
            ELSE Subdomain
    IN  IF r.path = <<>>
        THEN [panic |-> TRUE, found |-> "", lang |-> "", r |-> r, setCookie |-> NoCookie]
        ELSE Segment(FirstSegment(r.path))

\* the downstream request seen as GetLocale and GetMessage read it
Detection(r) ==
    [ctx |-> r.ctx, extract |-> r.extract, url |-> r.url, cookie |-> r.cookie,
     host |-> r.host, header |-> r.header]

\* a request arrives at the handler Router returned
RouterCall(r) ==
    /\ last = Idle
    /\ last' = [op |-> "Router", r |-> r, res |-> Router(Self, r)]
    /\ UNCHANGED <<Languages, matcher, strict, localizer, cfg, mu, calls>>

\* next.ServeHTTP(w, r): the downstream handler asks for the request's
\* Locale and for a message
ServeHTTP(key) ==
    /\ last.op = "Router"
    /\ ~last.res.panic
    /\ last' = [op |-> "ServeHTTP", r |-> last.r, res |-> last.res, key |-> key,
                index |-> GetLocaleIndex(Self, Detection(last.res.r)),
                loc |-> GetLocale(Self, Detection(last.res.r)),
                msg |-> GetMessage(Self, Detection(last.res.r), key)]
    /\ UNCHANGED <<Languages, matcher, strict, localizer, cfg, mu, calls>>

NextRouter ==
    \/ \E r \in RouterRequests(cfg) : RouterCall(r)
    \/ \E key \in Keys : ServeHTTP(key)
    \/ Return

SpecRouter == InitHttp /\ [][NextRouter]_vars

\* ------------------------------------------------- one ingestion pass

\* the file names a loader may hand to ParseLanguageFiles
IngestFiles ==
    { MkFile(<<"locales", "/", "en-US", "/", "a", ".", "yml">>, ("hi" :> "m1")),
      MkFile(<<"locales", "/", "en-GB", "/", "a", ".", "yml">>, ("hi" :> "m1")),
      MkFile(<<"locales", "/", "el-GR", "/", "a", ".", "yml">>, ("hi" :> "m1")),
      MkFile(<<"locales", "/", "zh-TW", "/", "a", ".", "yml">>, ("hi" :> "m1")),
      MkFile(<<"locales", "/", "und", "/", "a", ".", "yml">>, ("hi" :> "m1")),
      MkFile(<<"locales", "/", "readme", ".", "txt">>, ("hi" :> "m1")) }

IngestFileLists == { q \in SeqsUpTo(IngestFiles, MaxFiles) : Distinct(q) }

\* a loader calls Matcher.ParseLanguageFiles
ParseLanguageFilesCall(files) ==
    /\ last = Idle
    /\ \E r \in {ParseLanguageFiles(TheMatcher, files)} :
        /\ Languages' = r.m.Languages
        /\ matcher' = r.m.matcher
        /\ last' = [op |-> "ParseLanguageFiles", files |-> files,
                    languageFiles |-> r.languageFiles, pre |-> TheMatcher]
    /\ UNCHANGED <<strict, localizer, cfg, mu, calls>>

NextIngest ==
    \/ \E files \in IngestFileLists : ParseLanguageFilesCall(files)
    \/ Return

SpecIngest == InitMatcher /\ [][NextIngest]_vars

\* ------------------------------------------- lookups, one after another

TryMatchStringCall(s) ==
    /\ last = Idle
    /\ last' = [op |-> "TryMatchString", s |-> s, res |-> TryMatchString(Self, s)]
    /\ UNCHANGED <<Languages, matcher, strict, localizer, cfg, mu, calls>>

\* the calls of Next and TryMatchString, in any order
NextLookups ==
    \/ \E s \in Codes : TryMatchStringCall(s)
    \/ \E lang \in Codes, key \in Keys : TrCall(lang, key)
    \/ \E r \in Requests(cfg) : GetLocaleCall(r)
    \/ \E r \in Requests(cfg), key \in Keys : GetMessageCall(r, key)
    \/ \E langCode \in SetDefaultCodes : SetDefaultCall(langCode)
    \/ Return

SpecLookups == Init /\ [][NextLookups]_vars

\* -------------------------------------------- SetDefault, step by step

\* an instance New has returned, with no SetDefault and no Tr in progress
InitSwap ==
    \E files \in FileLists, languages \in LanguageLists :
        \E n \in {New(files, languages)} :
            /\ ~n.err
            /\ Languages = n.Languages
            /\ matcher = n.matcher
            /\ strict = n.strict
            /\ localizer = n.localizer
            /\ cfg = Config(FALSE, FALSE, FALSE)
            /\ last = Idle
            /\ mu = 0
            /\ calls = [tr        |-> [pc |-> "idle"],
                        sd        |-> [pc |-> "idle"],
                        ready     |-> TRUE,
                        published |-> n.Languages]

\* tags[index] = tags[0]; tags[0] = tag
SwapTags(tags, index, tag) ==
    [k \in 1..Len(tags) |->
        IF k = 1 THEN tag
        ELSE IF k = index + 1 THEN tags[1]
        ELSE tags[k]]

\* SetDefault on its goroutine: language.Parse and i.matcher.Match
SetDefaultMatch(langCode) ==
    /\ calls.sd.pc = "idle"
    /\ \E p \in {Parse(langCode)} :
        \E r \in {MatchTags(matcher, p.tag)} :
            calls' = [calls EXCEPT !.sd =
                        IF ~p.err /\ r.conf > Low
                        THEN [pc |-> "matched", langCode |-> langCode,
                              tag |-> r.tag, index |-> r.index]
                        ELSE [pc |-> "done", langCode |-> langCode, ok |-> FALSE]]
    /\ UNCHANGED <<Languages, matcher, strict, localizer, cfg, last, mu>>

\* the same SetDefault goes on: l.SetDefault(index) exchanges the registry
\* slots, with no lock held
SetDefaultRegistry ==
    /\ calls.sd.pc = "matched"
    /\ \E l \in {LocalizerSetDefault(localizer, calls.sd.index)} :
        /\ localizer' = l.l
        /\ calls' = [calls EXCEPT
                        !.sd = IF l.ok
                               THEN [pc |-> "swapped", langCode |-> calls.sd.langCode,
                                     tag |-> calls.sd.tag, index |-> calls.sd.index]
                               ELSE [pc |-> "done", langCode |-> calls.sd.langCode,
                                     ok |-> FALSE],
                        !.published = IF l.ok
                                      THEN SwapTags(Languages, calls.sd.index,
                                                    calls.sd.tag)
                                      ELSE calls.published]
    /\ UNCHANGED <<Languages, matcher, strict, cfg, last, mu>>

\* and ends: the tags are exchanged and the matcher is built anew
SetDefaultTags ==
    /\ calls.sd.pc = "swapped"
    /\ \E tags \in {SwapTags(Languages, calls.sd.index, calls.sd.tag)} :
        /\ Languages' = tags
        /\ matcher' = NewMatcher(tags)
    /\ calls' = [calls EXCEPT !.sd = [pc |-> "done", langCode |-> calls.sd.langCode,
                                      ok |-> TRUE]]
    /\ UNCHANGED <<strict, localizer, cfg, last, mu>>

SetDefaultReturn ==
    /\ calls.sd.pc = "done"
    /\ calls' = [calls EXCEPT !.sd = [pc |-> "idle"]]
    /\ UNCHANGED <<Languages, matcher, strict, localizer, cfg, last, mu>>

\* one goroutine calls SetDefault while another calls Tr
NextSwap ==
    \/ \E langCode \in SetDefaultCodes : SetDefaultMatch(langCode)
    \/ SetDefaultRegistry
    \/ SetDefaultTags
    \/ SetDefaultReturn
    \/ \E lang \in NewCodes, key \in Keys : TrMatch(lang, key)
    \/ TrFetch
    \/ TrReturn

SpecSwap == InitSwap /\ [][NextSwap]_vars

\* ------------------------------------------------------------ claims

\* what the claims speak of, stated over the registered-tag list alone

\* code s matches a registered language with confidence above Low
Matches(s) ==
    /\ ~Parse(s).err
    /\ \E j \in 1..Len(Languages) : Conf(Parse(s).tag, Languages[j]) > Low

\* the index of the registered language code s matches best
MatchedIndex(s) == MatchTags(Languages, Parse(s).tag).index

\* the index a code resolves to: its match, or the default language
ResolvedIndex(s) == IF Matches(s) THEN MatchedIndex(s) ELSE 0

\* the code of the language registered at index 0
DefaultCode == TagString(At(Languages, 0))

HasLocale(index) == ~LocalizerGetLocale(localizer, index).nil

\* key has a resource in the table of the Locale at index
HasKey(index, key) ==
    /\ HasLocale(index)
    /\ key \in DOMAIN localizer[index].table

\* key exists in the default language's table and in no other table
OnlyInDefault(key) ==
    /\ HasKey(0, key)
    /\ \A j \in DOMAIN localizer : j # 0 => ~HasKey(j, key)

\* C1: for every registered, non-default code c and every key k that
\* exists only in the default language's table, Tr(c, k) returns the
\* default language's text for k, when Strict is off and no
\* DefaultMessageFunc is configured.
C1_FallsBackToDefaultText ==
    (/\ last.op = "Tr"
     /\ ~cfg.Strict
     /\ ~cfg.DefaultMessageFunc
     /\ Matches(last.lang)
     /\ MatchedIndex(last.lang) > 0
     /\ OnlyInDefault(last.key))
    => (/\ ~last.res.panic
        /\ last.res.ret = LocaleGetMessage(localizer[0], last.key))

SignalCodes(r) ==
    (IF cfg.ContextKey /\ r.ctx \notin {CtxNil, CtxOther} THEN <<r.ctx>> ELSE <<>>)
    \o (IF cfg.ExtractFunc /\ r.extract # "" THEN <<r.extract>> ELSE <<>>)
    \o (IF cfg.URLParameter /\ r.url # "" THEN <<r.url>> ELSE <<>>)
    \o (IF cfg.Cookie /\ r.cookie # NoCookie THEN <<r.cookie>> ELSE <<>>)
    \o (IF cfg.Subdomain /\ getSubdomain(r) # "" THEN <<getSubdomain(r)>> ELSE <<>>)

\* the Accept-Language header of r matches a registered language above Low
HeaderMatches(r) ==
    /\ r.header # <<>>
    /\ ~ParseAcceptLanguage(r.header).err
    /\ MatchMany(Languages, ParseAcceptLanguage(r.header).tags).conf > Low

\* the context value of r names the default language outright
CtxDefault(r) == cfg.ContextKey /\ r.ctx = "default"

NoSignalMatches(r) ==
    /\ ~CtxDefault(r)
    /\ \A k \in 1..Len(SignalCodes(r)) : ~Matches(SignalCodes(r)[k])
    /\ ~HeaderMatches(r)

\* the index of the language of the first signal of r, in priority order,
\* that matches a registered language above Low
FirstMatchIndex(r) ==
    LET codes == SignalCodes(r)
    IN  IF CtxDefault(r) THEN 0
        ELSE IF \E k \in 1..Len(codes) : Matches(codes[k])
        THEN MatchedIndex(codes[CHOOSE k \in 1..Len(codes) :
                                  /\ Matches(codes[k])
                                  /\ \A j \in 1..(k - 1) : ~Matches(codes[j])])
        ELSE MatchMany(Languages, ParseAcceptLanguage(r.header).tags).index

\* C3: GetLocale(r) returns the Locale of the first registered language
\* (index 0) whenever none of the configured signals yields a registered
\* language above Low, also when a signal is present with an unmatched or
\* unparsable value.
C3_NoMatchGivesIndexZero ==
    (last.op = "GetLocale" /\ NoSignalMatches(last.r))
    => last.loc = LocalizerGetLocale(localizer, 0)

\* C4: GetLocale(r) resolves to the language of the first signal, in the
\* order context key, ExtractFunc, URL parameter, cookie, subdomain,
\* Accept-Language, that matches a registered language above Low: a
\* signal that does not match never keeps a later matching one from
\* being used.
C4_FirstMatchingSignalWins ==
    (last.op = "GetLocale" /\ ~NoSignalMatches(last.r))
    => /\ last.index = FirstMatchIndex(last.r)
       /\ last.loc = LocalizerGetLocale(localizer, FirstMatchIndex(last.r))

\* C5: Tr and GetMessage never fail: a missing key, a missing language or
\* an index with no Locale always ends in a returned string.
C5_LookupsNeverPanic ==
    last.op \in {"Tr", "GetMessage"} => ~last.res.panic

\* the text of key in the table of the Locale at index, "" without one
TextAt(index, key) ==
    IF HasLocale(index) THEN LocaleGetMessage(localizer[index], key) ELSE ""

\* the language of the Locale at index, "" without one
LanguageAt(index) ==
    IF HasLocale(index) THEN LocaleLanguage(localizer[index]) ELSE ""

\* C6: with a DefaultMessageFunc configured, Tr never consults the default
\* language's table for a missing key; it calls the DefaultMessageFunc
\* exactly when the resolved Locale's text is empty or there is no Locale,
\* with the caller's lang, the matched Locale's language ("" if none) and
\* the key, and returns its result. Without one, a text that is still
\* empty is returned as the empty string.
C6_DefaultMessageFuncReplacesFallback ==
    last.op = "Tr" =>
        LET index == ResolvedIndex(last.lang)
            own   == TextAt(index, last.key)
        IN  /\ cfg.DefaultMessageFunc =>
                /\ ~last.res.panic
                /\ ~last.res.fallback
                /\ (last.res.dmf # <<>>) = (own = "")
                /\ own = "" =>
                     /\ last.res.dmf = <<last.lang, LanguageAt(index), last.key>>
                     /\ last.res.ret = MessageFunc(last.lang, LanguageAt(index), last.key)
                /\ own # "" => last.res.ret = own
            /\ (~cfg.DefaultMessageFunc /\ ~last.res.panic /\ own = ""
                  /\ (index > 0 /\ HasLocale(index) /\ ~cfg.Strict => TextAt(0, last.key) = ""))
                => (last.res.ret = "" /\ last.res.dmf = <<>>)

\* a Tr call for a key that the matched, non-default language lacks and the
\* default language has, answered by the DefaultMessageFunc
C6_Witness ==
    /\ last.op = "Tr"
    /\ cfg.DefaultMessageFunc
    /\ ~cfg.Strict
    /\ ResolvedIndex(last.lang) > 0
    /\ HasLocale(ResolvedIndex(last.lang))
    /\ TextAt(ResolvedIndex(last.lang), last.key) = ""
    /\ TextAt(0, last.key) # ""
    /\ last.res.ret = MessageFunc(last.lang, LanguageAt(ResolvedIndex(last.lang)), last.key)

\* the index the last lookup resolved to
LookupIndex ==
    IF last.op = "Tr" THEN ResolvedIndex(last.lang) ELSE last.index

\* C7: with Strict set and no DefaultMessageFunc, Tr(c, k) and
\* GetMessage(r, k) return the empty string whenever k is missing from the
\* table of the language the lookup resolves to, even if the default
\* language's table has k.
C7_StrictGivesEmpty ==
    (/\ last.op \in {"Tr", "GetMessage"}
     /\ cfg.Strict
     /\ ~cfg.DefaultMessageFunc
     /\ ~HasKey(LookupIndex, last.key))
    => (~last.res.panic /\ last.res.ret = "")

\* a strict Tr call for a key that only the default language has
C7_Witness ==
    /\ last.op = "Tr"
    /\ cfg.Strict
    /\ ~cfg.DefaultMessageFunc
    /\ LookupIndex > 0
    /\ HasLocale(LookupIndex)
    /\ ~HasKey(LookupIndex, last.key)
    /\ TextAt(0, last.key) # ""
    /\ last.res.ret = ""

\* the two tags name the same language and region
SameLanguage(a, b) == a.lang = b.lang /\ a.region = b.region

C9_TagsArePermuted ==
    /\ (last.op = "SetDefault" /\ last.ok) =>
         /\ Len(Languages) = Len(last.pre.Languages)
         /\ \A k \in 0..(Len(Languages) - 1) :
              At(Languages, k) =
                 IF k = 0 THEN At(last.pre.Languages, last.index)
                 ELSE IF k = last.index THEN At(last.pre.Languages, 0)
                 ELSE At(last.pre.Languages, k)
    /\ \A k \in 0..(Len(Languages) - 1) :
         HasLocale(k) => localizer[k].tag = At(Languages, k)

\* the position of the last "/" of a path, 0 without one
LastSlash(path) ==
    IF \E i \in 1..Len(path) : path[i] = "/"
    THEN CHOOSE i \in 1..Len(path) :
            path[i] = "/" /\ \A j \in (i + 1)..Len(path) : path[j] # "/"
    ELSE 0

\* the position of the dot the extension of a path starts at: the last dot
\* of its final element, 0 when the final element has none
ExtensionDot(path) ==
    IF \E i \in (LastSlash(path) + 1)..Len(path) : path[i] = "."
    THEN CHOOSE i \in (LastSlash(path) + 1)..Len(path) :
            path[i] = "." /\ \A j \in (i + 1)..Len(path) : path[j] # "."
    ELSE 0

\* a path without its final extension
Stem(path) ==
    IF ExtensionDot(path) > 0 THEN SubSeq(path, 1, ExtensionDot(path) - 1) ELSE path

\* the rightmost of the names that parses as a language tag
RightmostParsed(names) ==
    IF \E k \in 1..Len(names) : ~Parse(names[k]).err
    THEN LET k == CHOOSE a \in 1..Len(names) :
                    /\ ~Parse(names[a]).err
                    /\ \A b \in (a + 1)..Len(names) : Parse(names[b]).err
         IN  [tag |-> Parse(names[k]).tag, ok |-> TRUE]
    ELSE [tag |-> Und, ok |-> FALSE]

\* C10: parseLanguage(path) strips the final extension, splits the rest on
\* path separators, '_' and '.', and returns the rightmost segment that
\* parses as a language tag, not-found if none parses: a language
\* directory is still found when no later segment parses.
C10_RightmostSegmentOfStem ==
    last.op = "parseLanguage" => last.res = RightmostParsed(Fields(Stem(last.path)))

Handled(p) ==
    LET c == calls.reload[p]
    IN  { c.all[j] : j \in 1..(Len(c.all) - Len(c.rest)) }

Kept(p, f) ==
    LET lf == calls.reload[p].languageFiles
    IN  \E k \in DOMAIN lf : \E j \in 1..Len(lf[k]) : lf[k][j] = f

\* C12: when New is called with a non-empty languages argument, only those
\* languages are used: the registered list never grows during ingestion,
\* and ParseLanguageFiles skips every file whose extracted language does
\* not match one of the given languages with confidence above Low, and
\* every file with no extractable language.
C12_OnlyGivenLanguagesAreUsed ==
    calls.languages # <<>> =>
        \A p \in Reloaders :
            calls.reload[p].pc = "loading" =>
                /\ Languages = makeTags(calls.languages)
                /\ \A f \in Handled(p) :
                     Kept(p, f) =>
                        /\ parseLanguage(f.path).ok
                        /\ MatchTags(makeTags(calls.languages),
                                     parseLanguage(f.path).tag).conf > Low

\* what Router's TryMatchString makes of the first path segment and of the
\* host's first label
SegmentMatch(r) == TryMatchString(Self, Join(FirstSegment(r.path)))

PathMatches(r) == r.path # <<>> /\ SegmentMatch(r).ok

SubdomainMatches(r) ==
    cfg.Subdomain /\ Len(r.host) > 1 /\ TryMatchString(Self, r.host[1]).ok

\* C13: Router: when the first path segment matches a registered language,
\* the downstream handler sees the path with exactly that segment removed
\* ("/" when nothing remains); when neither the first path segment nor,
\* with Subdomain enabled, the host's first label matches, the request
\* reaches the downstream handler with path, host and headers unchanged.
C13_RouterStripsOrPassesThrough ==
    last.op = "Router" =>
        /\ PathMatches(last.r) =>
              /\ ~last.res.panic
              /\ last.res.r.path =
                    (IF Len(last.r.path) > 2
                     THEN SubSeq(last.r.path, 3, Len(last.r.path))
                     ELSE <<"/">>)
        /\ (~PathMatches(last.r) /\ ~SubdomainMatches(last.r)) =>
              /\ ~last.res.panic
              /\ last.res.r = last.r

\* the index of the registered language Router detected for the request
DetectedIndex(r, found) ==
    IF found = "path" THEN SegmentMatch(r).index
    ELSE TryMatchString(Self, r.host[1]).index

\* C14: after Router detects language L from the path prefix or subdomain
\* of a request, GetLocale and GetMessage called on that request by the
\* downstream handler resolve to L, whatever signals are configured and
\* whatever other language values the request already carries in them.
C14_DownstreamResolvesToDetected ==
    (last.op = "ServeHTTP" /\ last.res.found # "") =>
        /\ last.index = DetectedIndex(last.r, last.res.found)
        /\ last.loc = LocalizerGetLocale(localizer, DetectedIndex(last.r, last.res.found))

\* C15: if ContextKey is not nil, then after Router detects a language
\* from the path prefix or subdomain, the request passed to the downstream
\* handler carries that language as a string under ContextKey.
C15_RouterFillsContextKey ==
    (last.op = "Router" /\ cfg.ContextKey /\ last.res.found # "") =>
        last.res.r.ctx = last.res.lang

\* C16: default-language fallback in Tr is triggered only when the key has
\* no resource in the resolved language's table; a key that is present in
\* that table and renders to the empty string is returned as the empty
\* string and does not trigger the retry against the default language.
C16_PresentKeyNeverFallsBack ==
    (last.op = "Tr" /\ last.res.index >= 0 /\ HasKey(last.res.index, last.key))
    => (/\ ~last.res.fallback
        /\ ~cfg.DefaultMessageFunc =>
              last.res.ret = LocaleGetMessage(localizer[last.res.index], last.key))

\* reloader p's reload has ended and no loader has run since
JustEnded(p, how) ==
    /\ calls.reload[p].pc = how
    /\ calls.reload[p].run = calls.runs

\* C17: a reload whose loader returns an error is all-or-nothing: the
\* state readers use afterwards (registered-tag list, matcher and registry)
\* is exactly what it was before the call, also in open mode where the
\* loader may have called MatchOrAdd / ParseLanguageFiles before failing.
C17_FailedReloadChangesNothing ==
    \A p \in Reloaders :
        (calls.ready /\ JustEnded(p, "failed")) => Published = calls.reload[p].pre

\* C18: a Tr call running concurrently with reload observes the
\* registry/matcher pair atomically: the index it resolved is the index
\* that the registered-tag list of the registry it then reads gives, never
\* an index computed from a list that registry does not correspond to.
C18_ReaderSeesOnePair ==
    (calls.tr.pc = "done" /\ calls.tr.during # 0) =>
        calls.tr.index =
            TryMatchString([Self EXCEPT !.matcher = calls.tr.regTags], calls.tr.lang).index

\* the Matcher reloader p's loader was handed
Handed(p) ==
    [strict |-> strict, Languages |-> calls.reload[p].pre.Languages,
     matcher |-> calls.reload[p].pre.matcher]

\* C19: two concurrent reload calls on the same I18n never overlap: at
\* most one of them is executing the loader or publishing the registry at
\* any time, and the published registry is the complete result of one of
\* them.
C19_ReloadsNeverOverlap ==
    /\ Cardinality({ p \in Reloaders : calls.reload[p].pc = "loading" }) <= 1
    /\ \A p \in Reloaders : calls.reload[p].pc = "loading" => mu = p
    /\ \A p \in Reloaders :
          JustEnded(p, "done") =>
             /\ localizer = Loader(Handed(p), calls.reload[p].all).localizer
             /\ Languages = Loader(Handed(p), calls.reload[p].all).m.Languages

\* one reload is running its loader, having grown the list, while the
\* other has called reload and waits for the mutex
C19_Witness ==
    \E p, q \in Reloaders :
        /\ p # q
        /\ calls.reload[p].pc = "loading"
        /\ Languages # calls.reload[p].pre.Languages
        /\ calls.reload[q].pc = "waiting"

\* C20: after a successful New, the registry covers every registered
\* language: for every index i with 0 <= i < len(Languages), GetLocale(i)
\* returns a non-null Locale, also for languages passed to New for which
\* no resource file was found.
C20_RegistryCoversEveryLanguage ==
    \A index \in 0..(Len(Languages) - 1) : HasLocale(index)

\* C21: in every reachable state the registered-tag list contains no two
\* equal tags: after New with any sequence of language codes (repeated
\* codes included), after any MatchOrAdd calls and after any SetDefault
\* calls.
C21_NoTwoEqualTags ==
    \A a, b \in 1..Len(Languages) : a # b => Languages[a] # Languages[b]

\* C22: the undefined tag is never a member of the registered-tag list and
\* never matches above Low: neither New (via makeTags) nor ingestion
\* (parseLanguage -> parsePath -> MatchOrAdd, in open mode) ever appends
\* the undefined tag or a tag obtained from an unparsable code, for any
\* language codes and any file paths.
C22_UndefinedTagNeverRegistered ==
    /\ \A j \in 1..Len(Languages) : Languages[j] # Und
    /\ MatchTags(matcher, Und).conf <= Low

\* the positions of the input at which the files of a bucket stand
Positions(files, bucket) ==
    [j \in 1..Len(bucket) |-> CHOOSE k \in 1..Len(files) : files[k] = bucket[j]]

\* C27: during one ingestion pass the registered-tag list only grows by
\* appending, so an index returned earlier keeps denoting the same tag.
\* Every key of the map returned by ParseLanguageFiles is a valid index,
\* each input file appears in at most one bucket and in input order, and
\* each file in bucket i is one whose extracted language matched
\* Languages[i] with confidence above Low.
C27_IngestionOnlyAppends ==
    last.op = "ParseLanguageFiles" =>
        LET lf == last.languageFiles
        IN  /\ Len(Languages) >= Len(last.pre.Languages)
            /\ SubSeq(Languages, 1, Len(last.pre.Languages)) = last.pre.Languages
            /\ \A i \in DOMAIN lf :
                  /\ 0 <= i /\ i < Len(Languages)
                  /\ Len(lf[i]) > 0
                  /\ \A j \in 1..Len(lf[i]) :
                        /\ \E k \in 1..Len(last.files) : last.files[k] = lf[i][j]
                        /\ parseLanguage(lf[i][j].path).ok
                        /\ Conf(parseLanguage(lf[i][j].path).tag, At(Languages, i)) > Low
                  /\ \A j \in 1..(Len(lf[i]) - 1) :
                        Positions(last.files, lf[i])[j] < Positions(last.files, lf[i])[j + 1]
            /\ \A i1, i2 \in DOMAIN lf :
                  i1 # i2 =>
                     \A j1 \in 1..Len(lf[i1]), j2 \in 1..Len(lf[i2]) : lf[i1][j1] # lf[i2][j2]

\* an open-mode pass over two files of one language that registered the
\* language behind an earlier one and put both files, in input order, into
\* its bucket
C27_Witness ==
    /\ last.op = "ParseLanguageFiles"
    /\ ~strict
    /\ Len(last.pre.Languages) > 0
    /\ Len(Languages) = Len(last.pre.Languages) + 1
    /\ (Len(Languages) - 1) \in DOMAIN last.languageFiles
    /\ last.languageFiles[Len(Languages) - 1] = last.files
    /\ Len(last.files) = 2

\* C23: Tr, TryMatchString, GetLocale and GetMessage leave the
\* registered-tag list, the matcher and the registry unchanged; only
\* reload and SetDefault mutate them. Consequently the same Tr(lang, key)
\* call, repeated with no reload or SetDefault in between, returns
\* identical text.
C23_LookupsChangeNothing ==
    [][ last'.op \in {"Tr", "TryMatchString", "GetLocale", "GetMessage"} =>
            /\ Languages' = Languages
            /\ matcher' = matcher
            /\ localizer' = localizer
            /\ last'.op = "Tr" =>
                  /\ last'.res = Tr(Self, last'.lang, last'.key)
                  /\ last'.res = Tr(Self', last'.lang, last'.key) ]_vars

\* a Tr call that consulted two tables of an instance whose default
\* language is no longer the first one New registered
C23_Witness ==
    /\ last.op = "Tr"
    /\ last.res.fallback
    /\ last.res.ret # ""
    /\ HasLocale(0)
    /\ localizer[0].index # 0

\* C24: whenever SetDefault(code) returns false, the registered-tag list,
\* the matcher and the registry are exactly as before the call; whenever
\* it returns true, both the registry slots and the tag positions 0 and
\* index have been exchanged.
C24_SetDefaultFailsCleanOrSwapsBoth ==
    last.op = "SetDefault" =>
        /\ ~last.ok =>
              /\ Languages = last.pre.Languages
              /\ matcher = last.pre.matcher
              /\ localizer = last.pre.localizer
        /\ last.ok =>
              /\ At(Languages, 0) = At(last.pre.Languages, last.index)
              /\ At(Languages, last.index) = At(last.pre.Languages, 0)
              /\ LocalizerGetLocale(localizer, 0) =
                    LocalizerGetLocale(last.pre.localizer, last.index)
              /\ LocalizerGetLocale(localizer, last.index) =
                    LocalizerGetLocale(last.pre.localizer, 0)

\* C25: GetMessage applies the same missing-key policy as Tr: for any
\* request r whose resolved Locale is that of language L, GetMessage(r, k)
\* returns the same text as Tr(L, k) under every setting of Strict,
\* DefaultMessageFunc and ContextKey, and also after a successful
\* SetDefault (retry decided by whether the resolved language is the one
\* currently at index 0, override hook invoked whenever the text is still
\* empty).
C25_GetMessageAgreesWithTr ==
    (/\ last.op = "GetMessage"
     /\ last.index >= 0
     /\ HasLocale(last.index)
     /\ Tr(Self, LanguageAt(last.index), last.key).index = last.index)
    => LET t == Tr(Self, LanguageAt(last.index), last.key)
       IN  /\ last.res.panic = t.panic
           /\ (last.res.dmf = <<>>) = (t.dmf = <<>>)
           /\ last.res.dmf = <<>> => last.res.ret = t.ret

\* the Locales the registry holds for code c, in whatever slot
LocalesOf(c) ==
    { localizer[k] : k \in { j \in DOMAIN localizer :
                               /\ ~localizer[j].nil
                               /\ localizer[j].tag = Parse(c).tag } }

\* C26: a Tr(c, k) for a registered code c whose table contains k returns
\* c's text even when a SetDefault on another goroutine runs beside it: the
\* reader never sees the registry slots exchanged while the matcher is still
\* the one built for the tags before the exchange.
C26_TrBesideSetDefaultReturnsOwnText ==
    (/\ calls.tr.pc = "done"
     /\ \E k \in 1..Len(Languages) : Languages[k] = Parse(calls.tr.lang).tag
     /\ \E k \in 1..Len(calls.tr.tags) : calls.tr.tags[k] = Parse(calls.tr.lang).tag
     /\ LocalesOf(calls.tr.lang) # {}
     /\ \A loc \in LocalesOf(calls.tr.lang) :
            LocaleGetMessage(loc, calls.tr.key) # "")
    => \E loc \in LocalesOf(calls.tr.lang) :
            calls.tr.res.ret = LocaleGetMessage(loc, calls.tr.key)

====
